---- MODULE Spec2Model ----
(***************************************************************************)
(* A model of the spriter scripts: the feathered crop of cutter.py         *)
(* (create_feathered_image and its batch driver process) and the file      *)
(* thinning of destroyer.py.                                               *)
(*                                                                         *)
(* Rasters are records [size, mode, px]: size is <<width, height>>, mode   *)
(* is the Pillow mode and px is the sequence of rows, each the sequence of *)
(* its pixels' channel tuples.  The Pillow calls the scripts make (crop,   *)
(* convert, Image.new, ImageDraw.rectangle, ImageDraw.ellipse, putalpha)   *)
(* are modelled by what the library does with them.                        *)
(***************************************************************************)
EXTENDS Integers, Sequences, FiniteSets, TLC

VARIABLES
    (* create_feathered_image: its arguments, locals and position *)
    image, square, offset_x, offset_y, feather, shape, shape_padding,
    crop_box, cropped_image, mask, solid_shape_box, i, drawn, warnings, pc,
    (* cutter.process: the batch driver *)
    folder, processed_dir, image_files, bar, opened, calls, outputs, echo, bpc,
    (* destroyer.process *)
    dfolder, keep_every, files, di, deleted_count, unlink_failed, dpc,
    (* merger.process *)
    mfolder, image_paths, num_images, sprite_width, sprite_height, grid_size,
    spritesheet, mi, pasted, saved, mpc

cropVars == <<image, square, offset_x, offset_y, feather, shape, shape_padding,
              crop_box, cropped_image, mask, solid_shape_box, i, drawn,
              warnings, pc>>
batchVars == <<folder, processed_dir, image_files, bar, opened, calls, outputs,
               echo, bpc>>
destroyVars == <<dfolder, keep_every, files, di, deleted_count, unlink_failed,
                 dpc>>
mergeVars == <<mfolder, image_paths, num_images, sprite_width, sprite_height,
               grid_size, spritesheet, mi, pasted, saved, mpc>>
vars == <<cropVars, batchVars, destroyVars, mergeVars>>

(* ------------------------------ bounds ------------------------------ *)
MaxDim == 6
MaxOffset == 1
MaxFeather == 2
MaxPadding == 3

(* ----------------------- program constants -------------------------- *)
\* fill=255: the fully opaque mask value
Opaque == 255

\* F of the value v, with v evaluated once.
With(v, F(_)) == CHOOSE r \in {F(x) : x \in {v}} : TRUE

Min(a, b) == IF a <= b THEN a ELSE b
Abs(a) == IF a < 0 THEN 0 - a ELSE a

(* ------------------------------ rasters ------------------------------ *)
\* A raster is [size, mode, px]; px is the sequence of its rows, top row
\* first, each row the sequence of its pixels from left to right.  Cells are
\* addressed as Pillow does, <<x, y>> from <<0, 0>>.
Cells(w, h) == (0 .. w - 1) \X (0 .. h - 1)

CellsOf(img) == Cells(img.size[1], img.size[2])

At(rows, c) == rows[c[2] + 1][c[1] + 1]

NoImage == [size |-> <<0, 0>>, mode |-> "none", px |-> <<>>]

\* A decoded input raster: every cell has its own colour; an RGBA raster
\* carries the alpha `alpha` in every cell.
InputImage(w, h, mode, alpha) ==
    [size |-> <<w, h>>, mode |-> mode,
     px |-> [y \in 1 .. h |-> [x \in 1 .. w |->
               IF mode = "RGBA" THEN <<x, y, 9, alpha>> ELSE <<x, y, 9>>]]]

\* Python 3 round() of n2/2: halves go to the even neighbour.
PyRoundHalf(n2) ==
    IF n2 % 2 = 0 THEN n2 \div 2
    ELSE LET k == n2 \div 2 IN IF k % 2 = 0 THEN k ELSE k + 1

ZeroPixel(mode) == IF mode = "RGBA" THEN <<0, 0, 0, 0>> ELSE <<0, 0, 0>>

\* Image.crop(box): the result has the box's size; cells of the box outside
\* the raster are zero.
ImageCrop(img, box) ==
    LET w == box[3] - box[1]
        h == box[4] - box[2]
    IN [size |-> <<w, h>>, mode |-> img.mode,
        px |-> [y \in 1 .. h |-> [x \in 1 .. w |->
                  LET s == <<x - 1 + box[1], y - 1 + box[2]>>
                  IN IF s \in CellsOf(img) THEN At(img.px, s)
                                           ELSE ZeroPixel(img.mode)]]]

\* The crop box of the centred square, in half pixels: left, top, right and
\* bottom of cutter.py are these values divided by two.
CropBox2(w, h, ox, oy) ==
    LET crop_size == Min(w, h)
    IN <<(w - crop_size) + 2 * ox, (h - crop_size) + 2 * oy,
         (w + crop_size) + 2 * ox, (h + crop_size) + 2 * oy>>

\* Image.crop rounds the box coordinate by coordinate.
RoundedCropBox(w, h, ox, oy) ==
    LET b2 == CropBox2(w, h, ox, oy)
    IN <<PyRoundHalf(b2[1]), PyRoundHalf(b2[2]),
         PyRoundHalf(b2[3]), PyRoundHalf(b2[4])>>

\* CropImage with the offsets applied to the uncropped raster as well.
CropImageShifted(img, sq, ox, oy) ==
    IF sq THEN ImageCrop(img, RoundedCropBox(img.size[1], img.size[2], ox, oy))
          ELSE ImageCrop(img, <<ox, oy, img.size[1] + ox, img.size[2] + oy>>)

\* Step 1 of create_feathered_image: image.crop(crop_box) or image.copy().
CropImage(img, sq, ox, oy) ==
    IF sq THEN ImageCrop(img, RoundedCropBox(img.size[1], img.size[2], ox, oy))
          ELSE img

\* convert("RGBA"): an RGB raster gains a fully opaque alpha channel.
ConvertRGBA(img) ==
    [size |-> img.size, mode |-> "RGBA",
     px |-> [y \in 1 .. img.size[2] |-> [x \in 1 .. img.size[1] |->
               LET p == img.px[y][x]
               IN IF img.mode = "RGBA" THEN p ELSE <<p[1], p[2], p[3], Opaque>>]]]

\* Image.new('L', size, 0)
NewMask(size) == [y \in 1 .. size[2] |-> [x \in 1 .. size[1] |-> 0]]

SolidShapeBox(size, padding) ==
    <<padding, padding, size[1] - padding, size[2] - padding>>

\* FeatherColor with the quotient taken in integers before the product.
FeatherColorIntDiv(k, f) == Opaque * (k \div f)

\* The colour of feather layer k: int(255 * (i / feather)).
FeatherColor(k, f) == (Opaque * k) \div f

FeatherBox(box, k, f) ==
    LET inset == f - k
    IN <<box[1] - inset, box[2] - inset, box[3] + inset, box[4] + inset>>

(* ------------------------- ImageDraw shapes ------------------------- *)
\* Pillow refuses a box whose second corner lies before its first.
ValidBox(box) == box[3] >= box[1] /\ box[4] >= box[2]

\* draw.rectangle: both corners are part of the rectangle.
InRectangle(c, box) ==
    /\ box[1] <= c[1] /\ c[1] <= box[3]
    /\ box[2] <= c[2] /\ c[2] <= box[4]

\* draw.ellipse: Pillow walks one quarter of the outline in half pixels
\* relative to the centre, from (a, b % 2) to (a % 2, b), each time taking
\* the neighbour that deviates least from the curve; a row is filled between
\* the first point the walk reaches on it and that point's mirror image.
QuarterDelta(a, b, x, y) == Abs(a * a * y * y + b * b * x * x - a * a * b * b)

\* One step of the walk from the point (cx, cy); rows maps every row reached
\* so far to the first cx reached on it.  The walk stays at its end point.
QuarterStep(a, b, cx, cy, rows) ==
    IF cx = a % 2 /\ cy = b THEN [cx |-> cx, cy |-> cy, rows |-> rows]
    ELSE LET d1 == QuarterDelta(a, b, cx, cy + 2)
             d2 == QuarterDelta(a, b, cx - 2, cy + 2)
             d3 == QuarterDelta(a, b, cx - 2, cy)
             diag == cx > 1 /\ d1 > d2
             nd == IF diag THEN d2 ELSE d1
             left == cx > 1 /\ nd > d3
             nx == IF diag \/ left THEN cx - 2 ELSE cx
             ny == IF left THEN cy ELSE cy + 2
         IN [cx |-> nx, cy |-> ny,
             rows |-> IF ny \in DOMAIN rows THEN rows ELSE (ny :> nx) @@ rows]

\* n steps of the walk from state st = [cx, cy, rows], or fewer when it
\* reaches its end point before.
RECURSIVE QuarterWalk(_, _, _, _)
QuarterWalk(a, b, st, n) ==
    IF n = 0 THEN st
    ELSE IF n = 1
    THEN With(st, LAMBDA s : QuarterStep(a, b, s.cx, s.cy, s.rows))
    ELSE With(QuarterWalk(a, b, st, n \div 2),
              LAMBDA half : IF half.cx = a % 2 /\ half.cy = b THEN half
                            ELSE QuarterWalk(a, b, half, n - (n \div 2)))

\* The walk ends within a + b steps: every step moves two half pixels.
EllipseRows(box) ==
    LET a == box[3] - box[1]
        b == box[4] - box[2]
    IN QuarterWalk(a, b, [cx |-> a, cy |-> b % 2, rows |-> (b % 2) :> a],
                   a + b).rows

InEllipseRows(c, box, rows) ==
    LET X == 2 * (c[1] - box[1]) - (box[3] - box[1])
        Y == 2 * (c[2] - box[2]) - (box[4] - box[2])
    IN /\ Abs(Y) \in DOMAIN rows
       /\ Abs(X) <= rows[Abs(Y)]

\* The cells of a raster of size `size` that drawing `sh` in `box` fills.
ShapeCells(sh, box, size) ==
    IF sh = "circle"
    THEN With(EllipseRows(box),
              LAMBDA rows : {c \in Cells(size[1], size[2]) :
                                InEllipseRows(c, box, rows)})
    ELSE {c \in Cells(size[1], size[2]) : InRectangle(c, box)}

\* draw.ellipse / draw.rectangle with fill: the cells of the shape take the
\* fill, the others keep their value.
DrawShape(m, cells, fill) ==
    With(cells,
         LAMBDA filled : [y \in DOMAIN m |-> [x \in DOMAIN m[y] |->
             IF <<x - 1, y - 1>> \in filled THEN fill ELSE m[y][x]]])

\* PutAlpha combining the mask with the alpha already there.
PutAlphaCombined(img, m) ==
    [size |-> img.size, mode |-> img.mode,
     px |-> [y \in DOMAIN img.px |-> [x \in DOMAIN img.px[y] |->
               LET p == img.px[y][x]
               IN <<p[1], p[2], p[3], Min(p[4], m[y][x])>>]]]

\* putalpha(mask): the alpha band is replaced by the mask.
PutAlpha(img, m) ==
    [size |-> img.size, mode |-> img.mode,
     px |-> [y \in DOMAIN img.px |-> [x \in DOMAIN img.px[y] |->
               LET p == img.px[y][x]
               IN <<p[1], p[2], p[3], m[y][x]>>]]]

(* --------------------- create_feathered_image ----------------------- *)
Shapes == {"circle", "rectangle"}

\* The rasters handed to create_feathered_image: an RGB raster and an RGBA
\* raster with a translucent alpha channel.
InputModes == {<<"RGB", 255>>, <<"RGBA", 77>>}

IdleCrop ==
    /\ image = NoImage /\ square = FALSE /\ offset_x = 0 /\ offset_y = 0
    /\ feather = 1 /\ shape = "circle" /\ shape_padding = 2
    /\ crop_box = <<0, 0, 0, 0>> /\ cropped_image = NoImage /\ mask = <<>>
    /\ solid_shape_box = <<0, 0, 0, 0>> /\ i = 0 /\ drawn = <<>>
    /\ warnings = <<>> /\ pc = "idle"

\* The state at the call: the arguments are bound, nothing has run.
CallState ==
    /\ crop_box = <<0, 0, 0, 0>> /\ cropped_image = NoImage /\ mask = <<>>
    /\ solid_shape_box = <<0, 0, 0, 0>> /\ i = 0 /\ drawn = <<>>
    /\ warnings = <<>> /\ pc = "crop"

\* Lines 26-39: the centred square crop, or a copy of the whole raster.
CropStep ==
    /\ pc = "crop"
    /\ crop_box' = IF square
                   THEN RoundedCropBox(image.size[1], image.size[2], offset_x, offset_y)
                   ELSE <<0, 0, image.size[1], image.size[2]>>
    /\ cropped_image' = CropImage(image, square, offset_x, offset_y)
    /\ pc' = "convert"
    /\ UNCHANGED <<batchVars, destroyVars, mergeVars>>
    /\ UNCHANGED <<image, square, offset_x, offset_y, feather, shape,
                   shape_padding, mask, solid_shape_box, i, drawn, warnings>>

\* Line 42
ConvertStep ==
    /\ pc = "convert"
    /\ cropped_image' = ConvertRGBA(cropped_image)
    /\ pc' = "mask"
    /\ UNCHANGED <<batchVars, destroyVars, mergeVars>>
    /\ UNCHANGED <<image, square, offset_x, offset_y, feather, shape,
                   shape_padding, crop_box, mask, solid_shape_box, i, drawn,
                   warnings>>

\* Lines 46-56: the black mask and the box of the solid shape.
MaskStep ==
    /\ pc = "mask"
    /\ mask' = NewMask(cropped_image.size)
    /\ solid_shape_box' = SolidShapeBox(cropped_image.size, shape_padding)
    /\ i' = 0
    /\ pc' = "feather"
    /\ UNCHANGED <<batchVars, destroyVars, mergeVars>>
    /\ UNCHANGED <<image, square, offset_x, offset_y, feather, shape,
                   shape_padding, crop_box, cropped_image, drawn, warnings>>

\* LayerOrder walking the layers from the innermost outwards.
LayerOrderDescending(k, f) == f - 1 - k

\* The layer the feather loop draws at index k: range(feather) ascends.
LayerOrder(k, f) == k

\* Lines 60-78: one iteration of the feather loop; a refused box raises out
\* of create_feathered_image.
FeatherStep ==
    /\ pc = "feather"
    /\ i < feather
    /\ LET k == LayerOrder(i, feather)
           box == FeatherBox(solid_shape_box, k, feather)
           cells == ShapeCells(shape, box, cropped_image.size)
           fill == FeatherColor(k, feather)
       IN IF ValidBox(box)
          THEN /\ mask' = DrawShape(mask, cells, fill)
               /\ drawn' = Append(drawn, [box |-> box, fill |-> fill])
               /\ i' = i + 1
               /\ pc' = IF i + 1 < feather THEN "feather" ELSE "solid"
          ELSE /\ pc' = "raised"
               /\ UNCHANGED <<mask, drawn, i>>
    /\ UNCHANGED <<batchVars, destroyVars, mergeVars>>
    /\ UNCHANGED <<image, square, offset_x, offset_y, feather, shape,
                   shape_padding, crop_box, cropped_image, solid_shape_box,
                   warnings>>

\* SolidFill one step short of opaque.
SolidFillDim == Opaque - 1

\* The fill of the solid centre.
SolidFill == Opaque

\* Lines 82-85: the solid centre, drawn on top of the gradient.
SolidStep ==
    /\ pc = "solid"
    /\ LET cells == ShapeCells(shape, solid_shape_box, cropped_image.size)
       IN IF ValidBox(solid_shape_box)
          THEN /\ mask' = DrawShape(mask, cells, SolidFill)
               /\ drawn' = Append(drawn, [box |-> solid_shape_box, fill |-> SolidFill])
               /\ pc' = "putalpha"
          ELSE /\ pc' = "raised"
               /\ UNCHANGED <<mask, drawn>>
    /\ UNCHANGED <<batchVars, destroyVars, mergeVars>>
    /\ UNCHANGED <<image, square, offset_x, offset_y, feather, shape,
                   shape_padding, crop_box, cropped_image, solid_shape_box, i,
                   warnings>>

\* Lines 88-90
PutAlphaStep ==
    /\ pc = "putalpha"
    /\ cropped_image' = PutAlpha(cropped_image, mask)
    /\ pc' = "done"
    /\ UNCHANGED <<batchVars, destroyVars, mergeVars>>
    /\ UNCHANGED <<image, square, offset_x, offset_y, feather, shape,
                   shape_padding, crop_box, mask, solid_shape_box, i, drawn,
                   warnings>>

\* The whole call, as its caller sees it: the result, or the exception of a
\* refused box.
RECURSIVE FeatherLoop(_, _, _, _, _, _)
FeatherLoop(m, k, f, sh, box, size) ==
    IF k >= f THEN [ok |-> TRUE, mask |-> m]
    ELSE LET layer == LayerOrder(k, f)
             fbox == FeatherBox(box, layer, f)
         IN IF ValidBox(fbox)
            THEN With(DrawShape(m, ShapeCells(sh, fbox, size),
                                FeatherColor(layer, f)),
                      LAMBDA layered : FeatherLoop(layered, k + 1, f, sh, box, size))
            ELSE [ok |-> FALSE, mask |-> m]

\* Steps 2 to 5 on the cropped and converted raster.
FeatherImage(cropped, f, sh, pad) ==
    LET box == SolidShapeBox(cropped.size, pad)
    IN With(FeatherLoop(NewMask(cropped.size), 0, f, sh, box, cropped.size),
            LAMBDA loop :
                IF loop.ok /\ ValidBox(box)
                THEN With(DrawShape(loop.mask,
                                    ShapeCells(sh, box, cropped.size), SolidFill),
                          LAMBDA m : [ok |-> TRUE, image |-> PutAlpha(cropped, m)])
                ELSE [ok |-> FALSE, image |-> NoImage])

CreateFeatheredImage(img, sq, ox, oy, f, sh, pad) ==
    With(CropImage(img, sq, ox, oy),
         LAMBDA cropped :
             With(ConvertRGBA(cropped),
                  LAMBDA converted : FeatherImage(converted, f, sh, pad)))

NextCrop ==
    \/ CropStep
    \/ ConvertStep
    \/ MaskStep
    \/ FeatherStep
    \/ SolidStep
    \/ PutAlphaStep

(* -------------------------- cutter.process --------------------------- *)
MaxFiles == 2

IdleBatch ==
    /\ folder = <<>> /\ processed_dir = FALSE /\ image_files = <<>>
    /\ bar = 0 /\ opened = <<>> /\ calls = 0 /\ outputs = <<>>
    /\ echo = <<>> /\ bpc = "idle"

SUPPORTED_EXTENSIONS == {".png", ".jpg", ".jpeg", ".bmp", ".gif", ".tiff"}

\* str.lower() on the suffixes the folders hold.
Lower(suffix) == IF suffix = ".JPG" THEN ".jpg" ELSE suffix

\* What a folder may hold: a directory, a text file, an undecodable .png, a
\* decodable .JPG, and a .png too small for a padding of 2 or more.
FolderEntries ==
    { [stem |-> "sub", suffix |-> ".png", is_file |-> FALSE, raster |-> NoImage],
      [stem |-> "notes", suffix |-> ".txt", is_file |-> TRUE, raster |-> NoImage],
      [stem |-> "bad", suffix |-> ".png", is_file |-> TRUE, raster |-> NoImage],
      [stem |-> "a", suffix |-> ".JPG", is_file |-> TRUE,
       raster |-> InputImage(5, 4, "RGB", 255)],
      [stem |-> "a", suffix |-> ".png", is_file |-> TRUE,
       raster |-> InputImage(2, 2, "RGBA", 77)] }

\* iterdir(): the entries of a folder, in any order.
Folders ==
    {f \in UNION {[1 .. n -> FolderEntries] : n \in 0 .. MaxFiles} :
        \A j \in DOMAIN f, k \in DOMAIN f : f[j] = f[k] => j = k}

\* Line 137
IsImageFile(e) == e.is_file /\ Lower(e.suffix) \in SUPPORTED_EXTENSIONS

\* Image.open raises on a file that is no image.
OpenFails(e) == e.raster = NoImage

\* ConfigRejected letting equal values through.
ConfigRejectedStrict(pad, f) == pad < f

\* Line 127
ConfigRejected(pad, f) == pad <= f

\* AfterException leaving the loop.
AfterExceptionAbort == "aborted"

\* Lines 163-164: the handler reports and the loop goes on.
AfterException == "loop"

optionVars == <<square, offset_x, offset_y, feather, shape, shape_padding>>
callVars == <<image, crop_box, cropped_image, mask, solid_shape_box, i, drawn,
              warnings, pc>>

\* Lines 127-128: click.BadParameter ends the run.
Validate ==
    /\ bpc = "start"
    /\ bpc' = IF ConfigRejected(shape_padding, feather) THEN "error" ELSE "setup"
    /\ UNCHANGED <<folder, processed_dir, image_files, bar, opened, calls,
                   outputs, echo>>
    /\ UNCHANGED <<optionVars, callVars, destroyVars, mergeVars>>

\* Lines 131-141: the output folder, the list of image files.
Setup ==
    /\ bpc = "setup"
    /\ processed_dir' = TRUE
    /\ image_files' = SelectSeq(folder, IsImageFile)
    /\ bar' = 1
    /\ IF SelectSeq(folder, IsImageFile) = <<>>
       THEN /\ echo' = echo \o <<[msg |-> "Input folder", file |-> ""],
                                 [msg |-> "Outputting", file |-> ""],
                                 [msg |-> "No supported image files", file |-> ""]>>
            /\ bpc' = "returned"
       ELSE /\ echo' = echo \o <<[msg |-> "Input folder", file |-> ""],
                                 [msg |-> "Outputting", file |-> ""]>>
            /\ bpc' = "loop"
    /\ UNCHANGED <<folder, opened, calls, outputs>>
    /\ UNCHANGED <<optionVars, callVars, destroyVars, mergeVars>>

Name(e) == <<e.stem, e.suffix>>

CouldNotProcess(e, why) ==
    [msg |-> "Could not process", file |-> Name(e), why |-> why]

\* Lines 144-164: one file of the batch; Image.open fails,
ProcessOpenFails ==
    /\ bpc = "loop" /\ bar <= Len(image_files)
    /\ OpenFails(image_files[bar])
    /\ opened' = Append(opened, Name(image_files[bar]))
    /\ echo' = Append(echo, CouldNotProcess(image_files[bar], "open"))
    /\ bar' = bar + 1
    /\ bpc' = AfterException
    /\ UNCHANGED <<folder, processed_dir, image_files, calls, outputs>>
    /\ UNCHANGED <<optionVars, callVars, destroyVars, mergeVars>>

\* or create_feathered_image raises,
ProcessRaises ==
    /\ bpc = "loop" /\ bar <= Len(image_files)
    /\ ~OpenFails(image_files[bar])
    /\ ~CreateFeatheredImage(image_files[bar].raster, square, offset_x,
                             offset_y, feather, shape, shape_padding).ok
    /\ opened' = Append(opened, Name(image_files[bar]))
    /\ calls' = calls + 1
    /\ echo' = Append(echo, CouldNotProcess(image_files[bar], "process"))
    /\ bar' = bar + 1
    /\ bpc' = AfterException
    /\ UNCHANGED <<folder, processed_dir, image_files, outputs>>
    /\ UNCHANGED <<optionVars, callVars, destroyVars, mergeVars>>

\* or the result cannot be written,
ProcessSaveFails ==
    /\ bpc = "loop" /\ bar <= Len(image_files)
    /\ ~OpenFails(image_files[bar])
    /\ CreateFeatheredImage(image_files[bar].raster, square, offset_x,
                            offset_y, feather, shape, shape_padding).ok
    /\ opened' = Append(opened, Name(image_files[bar]))
    /\ calls' = calls + 1
    /\ echo' = Append(echo, CouldNotProcess(image_files[bar], "save"))
    /\ bar' = bar + 1
    /\ bpc' = AfterException
    /\ UNCHANGED <<folder, processed_dir, image_files, outputs>>
    /\ UNCHANGED <<optionVars, callVars, destroyVars, mergeVars>>

\* or it is saved as <stem>.png in the output folder.
ProcessSaves ==
    /\ bpc = "loop" /\ bar <= Len(image_files)
    /\ ~OpenFails(image_files[bar])
    /\ LET r == CreateFeatheredImage(image_files[bar].raster, square, offset_x,
                                     offset_y, feather, shape, shape_padding)
       IN /\ r.ok
          /\ outputs' = (image_files[bar].stem :> r.image) @@ outputs
    /\ opened' = Append(opened, Name(image_files[bar]))
    /\ calls' = calls + 1
    /\ bar' = bar + 1
    /\ bpc' = "loop"
    /\ UNCHANGED <<folder, processed_dir, image_files, echo>>
    /\ UNCHANGED <<optionVars, callVars, destroyVars, mergeVars>>

\* Line 166
Complete ==
    /\ bpc = "loop" /\ bar > Len(image_files)
    /\ echo' = Append(echo, [msg |-> "Processing complete!", file |-> ""])
    /\ bpc' = "complete"
    /\ UNCHANGED <<folder, processed_dir, image_files, bar, opened, calls,
                   outputs>>
    /\ UNCHANGED <<optionVars, callVars, destroyVars, mergeVars>>

NextBatch ==
    \/ Validate
    \/ Setup
    \/ ProcessOpenFails
    \/ ProcessRaises
    \/ ProcessSaveFails
    \/ ProcessSaves
    \/ Complete

(* ------------------------- destroyer.process ------------------------- *)
MaxEntries == 4
MaxKeep == 3

IdleDestroy ==
    /\ dfolder = <<>> /\ keep_every = 0 /\ files = <<>> /\ di = 0
    /\ deleted_count = 0 /\ unlink_failed = {} /\ dpc = "idle"

\* sorted(): the names in ascending order.
RECURSIVE Sorted(_)
Sorted(S) ==
    IF S = {} THEN <<>>
    ELSE LET least == CHOOSE x \in S : \A y \in S : x <= y
         IN <<least>> \o Sorted(S \ {least})

\* KeepsFile counting the files from 0.
KeepsFileFromZero(idx, n) == idx % n = 0

\* Line 32: the file at index idx (from 0) is kept.
KeepsFile(idx, n) == (idx + 1) % n = 0

\* Lines 17-30: the check of keep_every and the sorted list of the files.
DStart ==
    /\ dpc = "start"
    /\ IF keep_every <= 0
       THEN dpc' = "returned" /\ UNCHANGED files
       ELSE /\ files' = Sorted({n \in DOMAIN dfolder : dfolder[n] = "file"})
            /\ dpc' = IF {n \in DOMAIN dfolder : dfolder[n] = "file"} = {}
                      THEN "returned" ELSE "loop"
    /\ di' = 0
    /\ deleted_count' = 0
    /\ UNCHANGED <<dfolder, keep_every, unlink_failed>>
    /\ UNCHANGED <<cropVars, batchVars, mergeVars>>

\* Lines 33-36: unlink succeeds.
DDelete ==
    /\ dpc = "loop" /\ di < Len(files)
    /\ ~KeepsFile(di, keep_every)
    /\ dfolder' = [dfolder EXCEPT ![files[di + 1]] = "absent"]
    /\ deleted_count' = deleted_count + 1
    /\ di' = di + 1
    /\ UNCHANGED <<keep_every, files, unlink_failed, dpc>>
    /\ UNCHANGED <<cropVars, batchVars, mergeVars>>

\* Lines 37-38: unlink raises OSError; the file stays.
DDeleteFails ==
    /\ dpc = "loop" /\ di < Len(files)
    /\ ~KeepsFile(di, keep_every)
    /\ unlink_failed' = unlink_failed \cup {files[di + 1]}
    /\ di' = di + 1
    /\ UNCHANGED <<dfolder, keep_every, files, deleted_count, dpc>>
    /\ UNCHANGED <<cropVars, batchVars, mergeVars>>

\* Lines 39-40
DKeep ==
    /\ dpc = "loop" /\ di < Len(files)
    /\ KeepsFile(di, keep_every)
    /\ di' = di + 1
    /\ UNCHANGED <<dfolder, keep_every, files, deleted_count, unlink_failed, dpc>>
    /\ UNCHANGED <<cropVars, batchVars, mergeVars>>

\* Lines 42-45
DFinish ==
    /\ dpc = "loop" /\ di = Len(files)
    /\ dpc' = "done"
    /\ UNCHANGED <<dfolder, keep_every, files, di, deleted_count, unlink_failed>>
    /\ UNCHANGED <<cropVars, batchVars, mergeVars>>

NextDestroy ==
    \/ DStart
    \/ DDelete
    \/ DDeleteFails
    \/ DKeep
    \/ DFinish

(* --------------------------- merger.process -------------------------- *)
MaxSprites == 5
MaxSpriteDim == 2

IdleMerge ==
    /\ mfolder = <<>> /\ image_paths = <<>> /\ num_images = 0
    /\ sprite_width = 0 /\ sprite_height = 0 /\ grid_size = 0
    /\ spritesheet = <<>> /\ mi = 0 /\ pasted = <<>> /\ saved = FALSE
    /\ mpc = "idle"

\* The integer part of the square root of n.
FloorSqrt(n) == CHOOSE r \in 0 .. n : r * r <= n /\ n < (r + 1) * (r + 1)

\* GridSize rounding the square root down.
GridSizeFloor(n) == FloorSqrt(n)

\* Line 36: math.ceil(math.sqrt(num_images)); the square root of a count of
\* files is a double that is whole exactly when the count is a square.
GridSize(n) == IF FloorSqrt(n) * FloorSqrt(n) = n THEN FloorSqrt(n)
               ELSE FloorSqrt(n) + 1

\* Line 44: Image.new('RGBA', (w, h), (0, 0, 0, 0)); a cell of the sheet is
\* 0 while transparent and holds the name of the sprite pasted over it.
NewSheet(w, h) == [y \in 1 .. h |-> [x \in 1 .. w |-> 0]]

\* Line 58: paste(sprite, (x, y)): the sprite covers its own size from
\* (x, y) on; what falls outside the sheet is clipped.
Paste(sheet, name, size, x, y) ==
    [r \in DOMAIN sheet |-> [c \in DOMAIN sheet[r] |->
        IF /\ x <= c - 1 /\ c - 1 < x + size[1]
           /\ y <= r - 1 /\ r - 1 < y + size[2]
        THEN name ELSE sheet[r][c]]]

\* Lines 16-26: the sorted list of the PNGs of the folder.
MStart ==
    /\ mpc = "start"
    /\ image_paths' = Sorted({n \in DOMAIN mfolder : mfolder[n].png})
    /\ IF {n \in DOMAIN mfolder : mfolder[n].png} = {}
       THEN mpc' = "returned" /\ UNCHANGED num_images
       ELSE /\ num_images' = Cardinality({n \in DOMAIN mfolder : mfolder[n].png})
            /\ mpc' = "first"
    /\ UNCHANGED <<mfolder, sprite_width, sprite_height, grid_size,
                   spritesheet, mi, pasted, saved>>
    /\ UNCHANGED <<cropVars, batchVars, destroyVars>>

\* Lines 29-31: the first image gives the sprite dimensions.
MFirst ==
    /\ mpc = "first"
    /\ sprite_width' = mfolder[image_paths[1]].size[1]
    /\ sprite_height' = mfolder[image_paths[1]].size[2]
    /\ mpc' = "grid"
    /\ UNCHANGED <<mfolder, image_paths, num_images, grid_size, spritesheet,
                   mi, pasted, saved>>
    /\ UNCHANGED <<cropVars, batchVars, destroyVars>>

\* Lines 36-44: the grid and the blank sheet.
MGrid ==
    /\ mpc = "grid"
    /\ grid_size' = GridSize(num_images)
    /\ spritesheet' = NewSheet(GridSize(num_images) * sprite_width,
                               GridSize(num_images) * sprite_height)
    /\ mi' = 0
    /\ mpc' = "loop"
    /\ UNCHANGED <<mfolder, image_paths, num_images, sprite_width,
                   sprite_height, pasted, saved>>
    /\ UNCHANGED <<cropVars, batchVars, destroyVars>>

\* Lines 47-58: sprite i goes to row i // grid_size, column i % grid_size.
MPaste ==
    /\ mpc = "loop" /\ mi < num_images
    /\ LET row == mi \div grid_size
           col == mi % grid_size
           x == col * sprite_width
           y == row * sprite_height
           name == image_paths[mi + 1]
       IN /\ spritesheet' = Paste(spritesheet, name, mfolder[name].size, x, y)
          /\ pasted' = Append(pasted, [name |-> name, row |-> row, col |-> col,
                                       x |-> x, y |-> y])
    /\ mi' = mi + 1
    /\ UNCHANGED <<mfolder, image_paths, num_images, sprite_width,
                   sprite_height, grid_size, saved, mpc>>
    /\ UNCHANGED <<cropVars, batchVars, destroyVars>>

\* Lines 61-64: the sheet is saved as spritesheet.png.
MSave ==
    /\ mpc = "loop" /\ mi = num_images
    /\ saved' = TRUE
    /\ mpc' = "done"
    /\ UNCHANGED <<mfolder, image_paths, num_images, sprite_width,
                   sprite_height, grid_size, spritesheet, mi, pasted>>
    /\ UNCHANGED <<cropVars, batchVars, destroyVars>>

NextMerge ==
    \/ MStart
    \/ MFirst
    \/ MGrid
    \/ MPaste
    \/ MSave

(* --------------------------- specifications -------------------------- *)
\* create_feathered_image on every raster up to MaxDim x MaxDim, with the
\* options cutter.process lets through (shape_padding > feather >= 1).
Init ==
    /\ \E w \in 1 .. MaxDim, h \in 1 .. MaxDim, m \in InputModes :
           image = InputImage(w, h, m[1], m[2])
    /\ square \in BOOLEAN
    /\ offset_x \in (0 - MaxOffset) .. MaxOffset
    /\ offset_y \in (0 - MaxOffset) .. MaxOffset
    /\ feather \in 1 .. MaxFeather
    /\ shape_padding \in (feather + 1) .. MaxPadding
    /\ shape \in Shapes
    /\ CallState
    /\ IdleBatch
    /\ IdleDestroy
    /\ IdleMerge

Next == NextCrop

Spec == Init /\ [][Next]_vars

\* The end-to-end scenario of the 100 x 100 opaque raster: feather 10,
\* padding 20, no offsets.
Scenario == [size |-> <<100, 100>>, feather |-> 10, shape_padding |-> 20]

InitScenario ==
    /\ \E m \in {<<"RGB", 255>>, <<"RGBA", 255>>} :
           image = InputImage(Scenario.size[1], Scenario.size[2], m[1], m[2])
    /\ square \in BOOLEAN
    /\ offset_x = 0
    /\ offset_y = 0
    /\ feather = Scenario.feather
    /\ shape_padding = Scenario.shape_padding
    /\ shape \in Shapes
    /\ CallState
    /\ IdleBatch
    /\ IdleDestroy
    /\ IdleMerge

SpecScenario == InitScenario /\ [][NextCrop]_vars

\* cutter.process on every folder of up to MaxFiles entries, with the options
\* the command line lets through (feather >= 1, shape_padding >= 1).
InitBatch ==
    /\ folder \in Folders
    /\ square \in BOOLEAN
    /\ offset_x \in {0, MaxOffset}
    /\ offset_y = 0
    /\ feather \in 1 .. MaxFeather
    /\ shape_padding \in 1 .. MaxPadding
    /\ shape \in Shapes
    /\ processed_dir = FALSE /\ image_files = <<>> /\ bar = 0
    /\ opened = <<>> /\ calls = 0 /\ outputs = <<>> /\ echo = <<>>
    /\ bpc = "start"
    /\ image = NoImage
    /\ crop_box = <<0, 0, 0, 0>> /\ cropped_image = NoImage /\ mask = <<>>
    /\ solid_shape_box = <<0, 0, 0, 0>> /\ i = 0 /\ drawn = <<>>
    /\ warnings = <<>> /\ pc = "idle"
    /\ IdleDestroy
    /\ IdleMerge

SpecBatch == InitBatch /\ [][NextBatch]_vars

\* The loop runs to its end: nothing but the interpreter schedules it.
FairBatch == SpecBatch /\ WF_vars(NextBatch)

\* destroyer.process on every folder of up to MaxEntries names, each a file,
\* a directory or absent.
InitDestroy ==
    /\ dfolder \in [1 .. MaxEntries -> {"file", "dir", "absent"}]
    /\ keep_every \in -1 .. MaxKeep
    /\ files = <<>> /\ di = 0 /\ deleted_count = 0 /\ unlink_failed = {}
    /\ dpc = "start"
    /\ IdleCrop
    /\ IdleBatch
    /\ IdleMerge

SpecDestroy == InitDestroy /\ [][NextDestroy]_vars

\* merger.process on every folder of up to MaxSprites names, each a PNG or
\* another file, the PNGs all of one size up to MaxSpriteDim on a side.
InitMerge ==
    /\ \E png \in [1 .. MaxSprites -> BOOLEAN],
          w \in 1 .. MaxSpriteDim, h \in 1 .. MaxSpriteDim :
           mfolder = [n \in 1 .. MaxSprites |-> [png |-> png[n], size |-> <<w, h>>]]
    /\ image_paths = <<>> /\ num_images = 0
    /\ sprite_width = 0 /\ sprite_height = 0 /\ grid_size = 0
    /\ spritesheet = <<>> /\ mi = 0 /\ pasted = <<>> /\ saved = FALSE
    /\ mpc = "start"
    /\ IdleCrop
    /\ IdleBatch
    /\ IdleDestroy

SpecMerge == InitMerge /\ [][NextMerge]_vars

(* ------------------------------ claims ------------------------------- *)
\* C1: a run of cutter.process with shape_padding <= feather ends in the
\* error state before any image is processed: no image opened, no call of
\* create_feathered_image, no output written, no 'processed' folder made.
C1_ConfigRejectedFirst ==
    (shape_padding <= feather /\ bpc # "start") =>
        /\ bpc = "error"
        /\ opened = <<>>
        /\ calls = 0
        /\ outputs = <<>>
        /\ ~processed_dir

C1_Witness ==
    /\ bpc = "error" /\ shape_padding = feather
    /\ \E k \in DOMAIN folder : IsImageFile(folder[k]) /\ ~OpenFails(folder[k])

MaskBuilt == pc \in {"putalpha", "done"}

MaskSize == cropped_image.size

MaskCells == Cells(MaskSize[1], MaskSize[2])

\* The cells of solidBox: inset from every edge by shape_padding.
InSolidBox(c) ==
    /\ shape_padding <= c[1] /\ c[1] < MaskSize[1] - shape_padding
    /\ shape_padding <= c[2] /\ c[2] < MaskSize[2] - shape_padding

SolidBoxFits ==
    /\ shape_padding > feather
    /\ 2 * shape_padding < Min(MaskSize[1], MaskSize[2])

LayerCells(k) == ShapeCells(shape, drawn[k].box, MaskSize)

\* C3: the feather layers are drawn in ascending i with fill
\* floor(255*i/feather), each inside the one before, the solid shape last
\* with 255, and the built mask is monotonic: a cell that lies in every
\* drawn shape containing another cell is at least as opaque.
C3_MonotonicGradient ==
    (pc = "putalpha") =>
        LET layers == [k \in 1 .. Len(drawn) |-> LayerCells(k)] @@ <<>>
            sig == [c \in MaskCells |->
                      {k \in 1 .. Len(drawn) : c \in layers[k]}] @@ <<>>
        IN /\ Len(drawn) = feather + 1
           /\ \A k \in 1 .. feather : drawn[k].fill = (255 * (k - 1)) \div feather
           /\ drawn[feather + 1].fill = 255
           /\ \A k \in 1 .. feather :
                  /\ drawn[k].fill <= drawn[k + 1].fill
                  /\ layers[k + 1] \subseteq layers[k]
           /\ \A p \in MaskCells, q \in MaskCells :
                  sig[q] \subseteq sig[p] => At(mask, p) >= At(mask, q)

C3_Witness ==
    /\ pc = "putalpha" /\ feather >= 2
    /\ \E p \in LayerCells(3), q \in LayerCells(2), r \in LayerCells(1) :
           /\ At(mask, p) = 255
           /\ 0 < At(mask, q) /\ At(mask, q) < 255
           /\ At(mask, r) = 0
           /\ q \notin LayerCells(3) /\ r \notin LayerCells(2)

\* The requested crop box leaves the raster (coordinates in half pixels).
CropOutOfBounds ==
    LET b2 == CropBox2(image.size[1], image.size[2], offset_x, offset_y)
    IN \/ b2[1] < 0 \/ b2[2] < 0
       \/ b2[3] > 2 * image.size[1] \/ b2[4] > 2 * image.size[2]

Max(a, b) == IF a >= b THEN a ELSE b

ClampedBox ==
    LET b == RoundedCropBox(image.size[1], image.size[2], offset_x, offset_y)
    IN <<Max(b[1], 0), Max(b[2], 0),
         Min(b[3], image.size[1]), Min(b[4], image.size[2])>>

\* C4 as stated: a square crop whose box leaves the raster is clamped to the
\* raster or passes the whole raster through, and a warning is surfaced.
C4_ClampOrPassthroughWarned ==
    (pc \notin {"crop", "idle"} /\ square /\ CropOutOfBounds) =>
        /\ \/ cropped_image.size = <<ClampedBox[3] - ClampedBox[1],
                                     ClampedBox[4] - ClampedBox[2]>>
           \/ cropped_image.size = image.size
        /\ warnings # <<>>

\* C5 as stated: a square crop without offsets is min(W,H) on both sides
\* and centred, the removed margins differing by at most 1.
C5_SquareCropCentred ==
    (pc \notin {"crop", "idle"} /\ square /\ offset_x = 0 /\ offset_y = 0) =>
        LET w == image.size[1]
            h == image.size[2]
        IN /\ cropped_image.size = <<Min(w, h), Min(w, h)>>
           /\ Abs(crop_box[1] - (w - crop_box[3])) <= 1
           /\ Abs(crop_box[2] - (h - crop_box[4])) <= 1

\* C7: putalpha leaves the three colour channels of every pixel unchanged
\* and sets every pixel's alpha to its mask cell, whatever the alpha was.
C7_PutAlphaFrame ==
    [][pc = "putalpha" =>
          /\ cropped_image'.size = cropped_image.size
          /\ \A c \in CellsOf(cropped_image) :
                 /\ At(cropped_image'.px, c)[1] = At(cropped_image.px, c)[1]
                 /\ At(cropped_image'.px, c)[2] = At(cropped_image.px, c)[2]
                 /\ At(cropped_image'.px, c)[3] = At(cropped_image.px, c)[3]
                 /\ At(cropped_image'.px, c)[4] = At(mask, c)]_vars

C7_Witness ==
    /\ pc = "done" /\ image.mode = "RGBA" /\ ~square
    /\ \E c \in CellsOf(image) :
           /\ At(cropped_image.px, c)[4] > At(image.px, c)[4]
           /\ At(cropped_image.px, c)[1] = At(image.px, c)[1]
    /\ \E c \in CellsOf(image) :
           At(cropped_image.px, c)[4] < At(image.px, c)[4]

\* C8: without square the crop is the identity: the working raster has the
\* input's size and colours whatever the offsets (only the alpha channel is
\* added by the conversion), and the input raster is left as it was.
C8_IdentityCrop ==
    [][(~square /\ pc \in {"crop", "convert"}) =>
          /\ image' = image
          /\ cropped_image'.size = image.size
          /\ pc = "crop" => cropped_image' = image
          /\ pc = "convert" =>
                 /\ cropped_image'.mode = "RGBA"
                 /\ \A c \in CellsOf(image) :
                        /\ At(cropped_image'.px, c)[1] = At(image.px, c)[1]
                        /\ At(cropped_image'.px, c)[2] = At(image.px, c)[2]
                        /\ At(cropped_image'.px, c)[3] = At(image.px, c)[3]
                        /\ At(cropped_image'.px, c)[4] =
                               IF image.mode = "RGBA" THEN At(image.px, c)[4]
                                                      ELSE 255]_vars

C8_Witness ==
    /\ ~square /\ pc = "mask" /\ offset_x # 0 /\ offset_y # 0
    /\ image.size[1] # image.size[2]
    /\ cropped_image.size = image.size

\* C9: the 100 x 100 opaque raster, square, no offsets, feather 10, padding
\* 20, circle: the result is 100 x 100 RGBA with alpha 255 at (50,50), 0 at
\* (0,0) and strictly between 0 and 255 at (50,15).
C9_Scenario ==
    (pc = "done" /\ square /\ shape = "circle" /\ image.size = <<100, 100>>
       /\ feather = 10 /\ shape_padding = 20 /\ offset_x = 0 /\ offset_y = 0) =>
        /\ cropped_image.size = <<100, 100>>
        /\ cropped_image.mode = "RGBA"
        /\ Len(cropped_image.px) = 100
        /\ \A y \in 1 .. 100 :
               /\ Len(cropped_image.px[y]) = 100
               /\ \A x \in 1 .. 100 : Len(cropped_image.px[y][x]) = 4
        /\ At(cropped_image.px, <<50, 50>>)[4] = 255
        /\ At(cropped_image.px, <<0, 0>>)[4] = 0
        /\ At(cropped_image.px, <<50, 15>>)[4] > 0
        /\ At(cropped_image.px, <<50, 15>>)[4] < 255

C9_Witness ==
    /\ pc = "done" /\ square /\ shape = "circle" /\ image.size = <<100, 100>>
    /\ feather = 10 /\ shape_padding = 20 /\ offset_x = 0 /\ offset_y = 0
    /\ At(cropped_image.px, <<50, 15>>)[4] = 127

\* The reports of a failure in the output, in order.
Reports == SelectSeq(echo, LAMBDA m : m.msg = "Could not process")

\* What the k-th file of the batch must have led to, by the file alone.
FileFailsEarly(e) ==
    \/ OpenFails(e)
    \/ ~CreateFeatheredImage(e.raster, square, offset_x, offset_y, feather,
                             shape, shape_padding).ok

\* C6: in the batch loop every file of the list is attempted exactly once,
\* in order; a file that fails to open, process or save is reported under
\* its own name and the loop goes on; and the loop always reaches
\* 'Processing complete'.
C6_BatchRunsThrough ==
    /\ [](bpc \in {"loop", "complete"} =>
            /\ Len(opened) = bar - 1
            /\ \A k \in 1 .. Len(opened) : opened[k] = Name(image_files[k])
            /\ \A k \in 1 .. Len(Reports) :
                   \E j \in 1 .. Len(opened) : Reports[k].file = opened[j]
            /\ \A k \in 1 .. Len(opened) :
                   LET mine == SelectSeq(Reports,
                                         LAMBDA m : m.file = Name(image_files[k]))
                   IN IF FileFailsEarly(image_files[k])
                      THEN Len(mine) = 1
                      ELSE \/ Len(mine) = 1 /\ mine[1].why = "save"
                           \/ /\ Len(mine) = 0
                              /\ image_files[k].stem \in DOMAIN outputs)
    /\ [](bpc = "complete" =>
            /\ Len(opened) = Len(image_files)
            /\ echo[Len(echo)].msg = "Processing complete!")
    /\ [](bpc \notin {"aborted"})
    /\ (bpc = "loop") ~> (bpc = "complete")

C6_Witness ==
    /\ bpc = "complete" /\ Len(image_files) >= 2
    /\ Len(Reports) >= 1
    /\ Reports[1].file = opened[1]
    /\ Len(Reports) < Len(opened)

\* The files deleted so far by position: not kept and unlink did not fail.
DeletedAt(k) == k % keep_every # 0 /\ files[k] \notin unlink_failed

\* C10: with keep_every = N >= 1, destroyer.process goes through the whole
\* sorted list, keeps exactly the files at positions N, 2N, ... (from 1) and
\* deletes every other file whose unlink does not fail; a failed unlink leaves
\* the file, is not counted and does not stop the loop; with keep_every <= 0
\* no file is deleted.
C10_KeepEveryNth ==
    /\ [](dpc = "done" =>
            LET n == Len(files)
            IN /\ keep_every >= 1
               /\ di = n
               /\ \A k \in 1 .. n - 1 : files[k] < files[k + 1]
               /\ \A e \in DOMAIN dfolder : dfolder[e] = "file" =>
                      \E k \in 1 .. n : files[k] = e
               /\ \A k \in 1 .. n :
                      dfolder[files[k]] = IF DeletedAt(k) THEN "absent" ELSE "file"
               /\ unlink_failed \subseteq {files[k] : k \in 1 .. n}
               /\ \A k \in 1 .. n :
                      files[k] \in unlink_failed => k % keep_every # 0
               /\ deleted_count = Cardinality({k \in 1 .. n : DeletedAt(k)})
               /\ unlink_failed = {} =>
                      /\ Cardinality({e \in DOMAIN dfolder : dfolder[e] = "file"})
                             = n \div keep_every
                      /\ deleted_count = n - (n \div keep_every))
    /\ [][keep_every <= 0 => dfolder' = dfolder /\ deleted_count' = 0]_vars
    /\ [][\A e \in DOMAIN dfolder : dfolder[e] = "dir" => dfolder'[e] = "dir"]_vars

C10_Witness ==
    /\ dpc = "done" /\ keep_every = 2 /\ Len(files) >= 4
    /\ Cardinality(unlink_failed) = 1
    /\ deleted_count = 1
    /\ dfolder[files[2]] = "file" /\ dfolder[files[4]] = "file"
    /\ \E k \in {1, 3} : dfolder[files[k]] = "absent"

\* The pixels of the sheet that show the sprite `name`.
ShownCells(name) ==
    {c \in Cells(grid_size * sprite_width, grid_size * sprite_height) :
        At(spritesheet, c) = name}

\* The pixels of the grid cell (row, col) of the sheet.
GridCell(row, col) ==
    {c \in Cells(grid_size * sprite_width, grid_size * sprite_height) :
        /\ c[1] \div sprite_width = col
        /\ c[2] \div sprite_height = row}

\* C11: for n >= 1 sprites of one size, grid_size is the smallest N with
\* N*N >= n, sprite i is pasted at row i // N, column i % N, and the cells
\* used are pairwise distinct and inside the N x N sheet: once all are
\* pasted every sprite shows whole in its own cell, none overwritten and
\* none clipped.
C11_GridPlacement ==
    (mpc \in {"loop", "done"}) =>
        /\ num_images >= 1
        /\ grid_size * grid_size >= num_images
        /\ \A N \in 0 .. grid_size - 1 : N * N < num_images
        /\ Len(pasted) = mi
        /\ \A k \in 1 .. Len(pasted) :
               /\ pasted[k].name = image_paths[k]
               /\ pasted[k].row = (k - 1) \div grid_size
               /\ pasted[k].col = (k - 1) % grid_size
               /\ pasted[k].row < grid_size /\ pasted[k].col < grid_size
               /\ pasted[k].x + sprite_width <= grid_size * sprite_width
               /\ pasted[k].y + sprite_height <= grid_size * sprite_height
               /\ ShownCells(pasted[k].name)
                      = GridCell(pasted[k].row, pasted[k].col)
        /\ \A j \in 1 .. Len(pasted), k \in 1 .. Len(pasted) :
               (pasted[j].row = pasted[k].row /\ pasted[j].col = pasted[k].col)
                   => j = k
        /\ mpc = "done" => mi = num_images /\ saved

C11_Witness ==
    /\ mpc = "done" /\ num_images = 5 /\ grid_size = 3
    /\ pasted[3].row = 0 /\ pasted[3].col = 2
    /\ pasted[5].row = 1 /\ pasted[5].col = 1
    /\ Cardinality(ShownCells(0)) = 4 * sprite_width * sprite_height

\* The step-by-step run and the whole call agree on the result.
StepsAgreeWithCall ==
    pc \in {"done", "raised"} =>
        LET r == CreateFeatheredImage(image, square, offset_x, offset_y,
                                      feather, shape, shape_padding)
        IN IF pc = "done" THEN r.ok /\ r.image = cropped_image ELSE ~r.ok

====
